---- MODULE Spec2Model ----
(***************************************************************************)
(* The VM-manager adapters of the repository as one state machine.         *)
(*                                                                         *)
(* The repository holds two programs.  main.py is the synchronous server:  *)
(* it reads its configuration when the module is loaded, and each tool is  *)
(* one blocking HTTP call wrapped in try/except.  server.py is the         *)
(* asynchronous server: each resource/tool is a coroutine that suspends    *)
(* once, awaiting its HTTP response.  A process runs one of the two;       *)
(* `program` says which.                                                   *)
(*                                                                         *)
(* Python values: a dict is a function from its keys (strings), built with *)
(* :> and @@ ; None is the string NoneValue where the other values are     *)
(* strings, and the object NoneObject where they are objects.              *)
(***************************************************************************)
EXTENDS Integers, Sequences, FiniteSets, Bags, TLC

VARIABLES
    program,        \* "main" (main.py) or "server" (server.py)
    environ,        \* the process environment: VM_API_URL, VM_API_KEY
    pc,             \* "loading", "failed" (import raised) or "serving"
    API_BASE_URL,   \* main.py:53, server.py:7 (API_BASE)
    API_KEY,        \* main.py:54
    inflight,       \* server.py: the bag of coroutines suspended at their await
    done,           \* the call that completed last, as its caller saw it
    vmState         \* the upstream's state of the instance "vm-1"

vars == <<program, environ, pc, API_BASE_URL, API_KEY, inflight, done, vmState>>

(***************************************************************************)
(* Bounds                                                                  *)
(***************************************************************************)
\* coroutines of server.py that may be suspended at the same time
MaxInFlight == 2

(***************************************************************************)
(* Python values                                                           *)
(***************************************************************************)
NoneValue == "<None>"
NoneObject == [none |-> TRUE]
EmptyDict == [k \in {} |-> ""]

\* truth value of an Optional[str]: None and "" are false
Truthy(v) == v \notin {NoneValue, ""}

\* truth value of an optional list: None and [] are false (both are <<>> here)
TruthyList(l) == l # <<>>

\* hasattr(obj, attr)
HasAttr(obj, attr) == attr \in DOMAIN obj

(***************************************************************************)
(* HTTP                                                                    *)
(***************************************************************************)
NoContent == 204
DefaultStatusCode == 500
ClientErrorFloor == 400

Payloads ==
    { [items |-> <<>>, total |-> 0],
      [items |-> <<"vm-1">>, total |-> 1] }

EmptyBody == [empty |-> TRUE]

Response(status, body) == [kind |-> "response", status_code |-> status, body |-> body]
NoResponse == [kind |-> "no-response"]

\* What the upstream (or the network) may answer to one request.  The wire
\* contract: 2xx with a JSON body, 204 with no body for mutations, 4xx/5xx
\* for failures; or no response at all (connection error, timeout).
SuccessAnswers == { Response(200, p) : p \in Payloads }
EmptyAnswers == { Response(NoContent, EmptyBody) }
FailureAnswers == { Response(404, [detail |-> "not found"]),
                    Response(503, [detail |-> "unavailable"]) }
MutatingOps ==
    { "delete_vm", "delete_instance", "start_instance", "stop_instance",
      "reboot_instance", "suspend_instance" }
Answers(op) ==
    SuccessAnswers \cup FailureAnswers \cup {NoResponse}
    \cup (IF op \in MutatingOps THEN EmptyAnswers ELSE {})

IsFailure(ans) == ans.kind = "response" /\ ans.status_code >= ClientErrorFloor

Request(method, path, headers, params, json) ==
    [method |-> method, base |-> API_BASE_URL, path |-> path,
     headers |-> headers, params |-> params, json |-> json]
NoJson == [absent |-> TRUE]

\* the HTTP round trips one operation makes for its request
RoundTripsWithRetry(req) == <<req, req>>
RoundTrips(req) == <<req>>

\* what a call hands back: a value, or an exception that leaves the function
Return(v, decoded) == [kind |-> "return", value |-> v, decoded |-> decoded]
Raise(exc, decoded) == [kind |-> "raise", exc |-> exc, decoded |-> decoded]

\* response.json(): the decoded body; an empty body does not decode
JsonDecodes(resp) == resp.body # EmptyBody
Json(resp) == resp.body

\* str(e) of the HTTPError raise_for_status() builds, and of a transport error
ErrorString(e) ==
    IF e.response = NoneObject THEN "Connection refused"
    ELSE IF e.response.status_code < 500 THEN "Client Error for url"
    ELSE "Server Error for url"

(***************************************************************************)
(* The upstream's instance, as far as the adapter can affect it.  The      *)
(* adapter never reads it.                                                 *)
(***************************************************************************)
VmStates == {"pending", "running", "stopped", "suspended", "rebooting", "terminated"}
Untracked == "untracked"

Target(op) ==
    CASE op \in {"delete_vm", "delete_instance"} -> "terminated"
      [] op = "start_instance" -> "running"
      [] op = "stop_instance" -> "stopped"
      [] op = "reboot_instance" -> "rebooting"
      [] op = "suspend_instance" -> "suspended"

\* The states the instance may be in after the upstream handled (or lost) one
\* request: an accepted action need not have taken effect yet, and a request
\* whose response was lost may have been carried out.
VmNext(s, op, ans) ==
    IF s = Untracked \/ op \notin MutatingOps \/ IsFailure(ans)
    THEN {s}
    ELSE {s, Target(op)}

(***************************************************************************)
(* main.py: configuration                                                  *)
(***************************************************************************)
DefaultBaseUrl == "https://api.magalu.cloud/br-se1/compute"

\* os.getenv(name, default)
Getenv(env, name, default) == IF name \in DOMAIN env THEN env[name] ELSE default

Environs ==
    { url @@ key :
        url \in {EmptyDict, "VM_API_URL" :> "http://localhost:8080"},
        key \in {EmptyDict, "VM_API_KEY" :> "", "VM_API_KEY" :> "key-1",
                 "VM_API_KEY" :> "key-2"} }

\* `if not API_KEY` checked for None only
CredentialIsNone(key) == key = NoneValue
\* `if not API_KEY: raise ValueError(...)`
CredentialMissing(key) == ~Truthy(key)

(***************************************************************************)
(* main.py: the tools                                                      *)
(***************************************************************************)
SyncHeaders == ("x-api-key" :> API_KEY) @@ ("Content-Type" :> "application/json")

SyncListParams(sort) == ("_offset" :> 0) @@ ("_sort" :> sort) @@ ("_limit" :> 100)

\* except requests.exceptions.RequestException as e: every RequestException
\* has the attribute `response`, which is None when no response was received
SyncExcept(e) ==
    IF HasAttr(e, "response")
    THEN IF HasAttr(e.response, "status_code")
         THEN Return([error |-> ErrorString(e),
                      status_code |-> e.response.status_code], FALSE)
         ELSE Raise("AttributeError", FALSE)
    ELSE Return([error |-> ErrorString(e), status_code |-> DefaultStatusCode], FALSE)

DeletedMessage == [message |-> "VM deleted successfully"]

\* the body of a tool after a response that raise_for_status() accepted,
\* wrapping the decoded payload
SyncBodyWrapped(op, resp) ==
    IF op = "delete_vm" /\ resp.status_code = NoContent
    THEN Return(DeletedMessage, FALSE)
    ELSE IF JsonDecodes(resp) THEN Return([data |-> Json(resp)], TRUE)
    ELSE Raise("JSONDecodeError", TRUE)
\* the body of a tool after a response that raise_for_status() accepted
SyncBody(op, resp) ==
    IF op = "delete_vm" /\ resp.status_code = NoContent
    THEN Return(DeletedMessage, FALSE)
    ELSE IF JsonDecodes(resp) THEN Return(Json(resp), TRUE)
    ELSE Raise("JSONDecodeError", TRUE)

\* try: requests.<method>(...); response.raise_for_status(); ... except ...
SyncOutcome(op, ans) ==
    IF ans.kind = "no-response"
    THEN SyncExcept([type |-> "ConnectionError", response |-> NoneObject])
    ELSE IF IsFailure(ans)
    THEN SyncExcept([type |-> "HTTPError", response |-> ans])
    ELSE SyncBody(op, ans)

\* create_vm's signature
CreateRequired == {"name", "machine_type_name", "ssh_key_name", "image_name"}
CreateOptional == {"availability_zone", "vpc_id", "user_data"}
CreateDefaults == [k \in CreateOptional |-> NoneValue]

\* the call binds to the signature: every required parameter, no unknown one
Binds(kwargs) ==
    /\ CreateRequired \subseteq DOMAIN kwargs
    /\ DOMAIN kwargs \subseteq CreateRequired \cup CreateOptional
Bound(kwargs) == kwargs @@ CreateDefaults

\* the payload with every optional key sent, None included
CreatePayloadWithNulls(p) ==
    ("name" :> p["name"])
    @@ ("machine_type" :> [name |-> p["machine_type_name"]])
    @@ ("ssh_key_name" :> p["ssh_key_name"])
    @@ ("image" :> [name |-> p["image_name"]])
    @@ ("availability_zone" :> p["availability_zone"])
    @@ ("network" :> [vpc |-> [id |-> p["vpc_id"]], associate_public_ip |-> TRUE])
    @@ ("user_data" :> p["user_data"])
\* create_vm's payload
CreatePayload(p) ==
    ("name" :> p["name"])
    @@ ("machine_type" :> [name |-> p["machine_type_name"]])
    @@ ("ssh_key_name" :> p["ssh_key_name"])
    @@ ("image" :> [name |-> p["image_name"]])
    @@ (IF Truthy(p["availability_zone"])
        THEN "availability_zone" :> p["availability_zone"] ELSE EmptyDict)
    @@ (IF Truthy(p["vpc_id"])
        THEN "network" :> [vpc |-> [id |-> p["vpc_id"]], associate_public_ip |-> TRUE]
        ELSE EmptyDict)
    @@ (IF Truthy(p["user_data"])
        THEN "user_data" :> p["user_data"] ELSE EmptyDict)

\* the calls of create_vm a caller may make: each reference by identifier or
\* by name, each optional argument left out, empty or given
Optionally(name, values) == {EmptyDict} \cup {name :> v : v \in values}
CreateKwargs ==
    { ("name" :> "web1") @@ ("ssh_key_name" :> "k1") @@ mt @@ img @@ az @@ vpc @@ ud :
        mt \in {"machine_type_id" :> "mt-1", "machine_type_name" :> "BV1-1-10"},
        img \in {"image_id" :> "img-1", "image_name" :> "cloud-ubuntu-22.04"},
        az \in Optionally("availability_zone", {"", "br-se1-a"}),
        vpc \in Optionally("vpc_id", {"", "vpc-9"}),
        ud \in Optionally("user_data", {"", "IyEvYmluL3No"}) }
CreateByName ==
    { ("name" :> "web1") @@ ("ssh_key_name" :> "k1")
      @@ ("machine_type_name" :> "BV1-1-10") @@ ("image_name" :> "cloud-ubuntu-22.04") }

NoCall == [kind |-> "none"]
NotSent == [kind |-> "not-sent"]

\* one blocking call of a tool of main.py, from the request to the return
SyncCall(op, args, req) ==
    /\ program = "main"
    /\ pc = "serving"
    /\ \E ans \in Answers(op) :
         /\ done' = [kind |-> "call", program |-> "main", op |-> op, args |-> args,
                     bound |-> TRUE, sent |-> RoundTrips(req), answer |-> ans,
                     outcome |-> SyncOutcome(op, ans)]
         /\ vmState' \in VmNext(vmState, op, ans)
    /\ UNCHANGED <<program, environ, pc, API_BASE_URL, API_KEY, inflight>>

\* a call that does not bind to the tool's signature never enters the tool
SyncRejected(op, args) ==
    /\ program = "main"
    /\ pc = "serving"
    /\ done' = [kind |-> "call", program |-> "main", op |-> op, args |-> args,
                bound |-> FALSE, sent |-> <<>>, answer |-> NotSent,
                outcome |-> Raise("TypeError", FALSE)]
    /\ UNCHANGED <<program, environ, pc, API_BASE_URL, API_KEY, inflight, vmState>>

LoadMain ==
    /\ program = "main"
    /\ pc = "loading"
    /\ API_BASE_URL' = Getenv(environ, "VM_API_URL", DefaultBaseUrl)
    /\ API_KEY' = Getenv(environ, "VM_API_KEY", NoneValue)
    /\ pc' = IF CredentialMissing(API_KEY') THEN "failed" ELSE "serving"
    /\ UNCHANGED <<program, environ, inflight, done, vmState>>

main_list_machine_types ==
    SyncCall("list_machine_types", EmptyDict,
             Request("GET", <<"v1", "machine-types">>, SyncHeaders,
                     SyncListParams("created_at:asc"), NoJson))

main_list_images ==
    SyncCall("list_images", EmptyDict,
             Request("GET", <<"v1", "images">>, SyncHeaders,
                     SyncListParams("platform:asc,end_life_at:desc"), NoJson))

list_vms ==
    SyncCall("list_vms", EmptyDict,
             Request("GET", <<"v1", "instances">>, SyncHeaders,
                     SyncListParams("created_at:desc"), NoJson))

get_vm ==
    \E vm_id \in {"vm-1"} :
        SyncCall("get_vm", "vm_id" :> vm_id,
                 Request("GET", <<"v1", "instances", vm_id>>, SyncHeaders,
                         EmptyDict, NoJson))

create_vm(K) ==
    \E kwargs \in K :
        IF Binds(kwargs)
        THEN SyncCall("create_vm", kwargs,
                      Request("POST", <<"v1", "instances">>, SyncHeaders,
                              EmptyDict, CreatePayload(Bound(kwargs))))
        ELSE SyncRejected("create_vm", kwargs)

delete_vm ==
    \E vm_id \in {"vm-1"} :
        SyncCall("delete_vm", "vm_id" :> vm_id,
                 Request("DELETE", <<"v1", "instances", vm_id>>, SyncHeaders,
                         EmptyDict, NoJson))

(***************************************************************************)
(* server.py: the resources and tools                                      *)
(***************************************************************************)
API_BASE == "https://api.magalu.cloud/br-ne-1/compute/v1"

ListingOps ==
    { "list_instances", "list_images", "list_machine_types", "list_snapshots",
      "list_backups", "list_vms" }
\* the listings that take `expand` and `x_tenant_id`
TenantListings == {"list_instances", "list_snapshots", "list_backups"}
ActionOps ==
    { "delete_instance", "start_instance", "stop_instance", "reboot_instance",
      "suspend_instance" }

DefaultSort(op) ==
    IF op = "list_images" THEN "platform:asc,end_life_at:desc" ELSE "created_at:asc"

\* the arguments of a listing: its defaults, and every one of them overridden
ListDefaults(op) ==
    ("_limit" :> 50) @@ ("_offset" :> 0) @@ ("_sort" :> DefaultSort(op))
    @@ (IF op \in TenantListings
        THEN ("expand" :> <<>>) @@ ("x_tenant_id" :> NoneValue) ELSE EmptyDict)
ListOverrides(op) ==
    ("_limit" :> 10) @@ ("_offset" :> 20) @@ ("_sort" :> "name:desc")
    @@ (IF op \in TenantListings
        THEN ("expand" :> <<"network">>) @@ ("x_tenant_id" :> "tenant-1") ELSE EmptyDict)
ListArgs(op) == {ListDefaults(op), ListOverrides(op)}

CreateBody == [name |-> "web1", machine_type |-> [id |-> "mt-1"],
               ssh_key_name |-> "k1", image |-> [id |-> "img-1"]]
CreateInstanceDefaults == ("body" :> CreateBody) @@ ("x_tenant_id" :> NoneValue)
CreateInstanceArgs ==
    { ("body" :> CreateBody) @@ ("x_tenant_id" :> t) : t \in {NoneValue, "tenant-1"} }

DeleteDefaults ==
    ("id" :> "vm-1") @@ ("x_tenant_id" :> NoneValue) @@ ("delete_public_ip" :> FALSE)
DeleteArgs ==
    { DeleteDefaults,
      ("id" :> "vm-1") @@ ("x_tenant_id" :> "tenant-1") @@ ("delete_public_ip" :> TRUE) }

ActionDefaults == ("id" :> "vm-1") @@ ("x_tenant_id" :> NoneValue)
ActionArgs == { ("id" :> "vm-1") @@ ("x_tenant_id" :> t) : t \in {NoneValue, "tenant-1"} }

\* headers = {} (or {"Content-Type": ...}); if x_tenant_id: headers[...] = ...
AsyncHeaders(op, a) ==
    (IF "x_tenant_id" \in DOMAIN a /\ Truthy(a["x_tenant_id"])
     THEN "x-tenant-id" :> a["x_tenant_id"] ELSE EmptyDict)
    @@ (IF op = "create_instance"
        THEN "Content-Type" :> "application/json" ELSE EmptyDict)

\* params = {...}; if expand: params["expand"] = expand
AsyncParams(op, a) ==
    IF op \in ListingOps
    THEN ("_limit" :> a["_limit"]) @@ ("_offset" :> a["_offset"])
         @@ ("_sort" :> a["_sort"])
         @@ (IF "expand" \in DOMAIN a /\ TruthyList(a["expand"])
             THEN "expand" :> a["expand"] ELSE EmptyDict)
    ELSE IF op = "delete_instance"
    THEN "delete_public_ip" :> a["delete_public_ip"]
    ELSE EmptyDict

AsyncMethod(op) ==
    IF op \in ListingOps THEN "GET"
    ELSE IF op = "delete_instance" THEN "DELETE" ELSE "POST"

AsyncPath(op, a) ==
    CASE op = "list_instances" -> <<"instances">>
      [] op = "list_images" -> <<"images">>
      [] op = "list_machine_types" -> <<"machine-types">>
      [] op = "list_snapshots" -> <<"snapshots">>
      [] op = "list_backups" -> <<"backups">>
      [] op = "create_instance" -> <<"instances">>
      [] op = "delete_instance" -> <<"instances", a["id"]>>
      [] op = "start_instance" -> <<"instances", a["id"], "start">>
      [] op = "stop_instance" -> <<"instances", a["id"], "stop">>
      [] op = "reboot_instance" -> <<"instances", a["id"], "reboot">>
      [] op = "suspend_instance" -> <<"instances", a["id"], "suspend">>

AsyncRequest(op, a) ==
    Request(AsyncMethod(op), AsyncPath(op, a), AsyncHeaders(op, a), AsyncParams(op, a),
            IF op = "create_instance" THEN a["body"] ELSE NoJson)

\* the marker an action returns for an empty success
Marker(op) ==
    CASE op = "delete_instance" -> [status |-> "deleted"]
      [] op = "start_instance" -> [status |-> "started"]
      [] op = "stop_instance" -> [status |-> "stopped"]
      [] op = "reboot_instance" -> [status |-> "rebooted"]
      [] op = "suspend_instance" -> [status |-> "suspended"]

\* the coroutine after its await, decoding whatever success it received
AsyncBodyAlwaysDecodes(op, resp) ==
    IF resp.status_code >= ClientErrorFloor THEN Raise("HTTPStatusError", FALSE)
    ELSE IF JsonDecodes(resp) THEN Return(Json(resp), TRUE)
    ELSE Raise("JSONDecodeError", TRUE)
\* the coroutine after its await: the 204 check of the actions,
\* resp.raise_for_status(), resp.json()
AsyncBody(op, resp) ==
    IF op \in ActionOps /\ resp.status_code = NoContent THEN Return(Marker(op), FALSE)
    ELSE IF resp.status_code >= ClientErrorFloor THEN Raise("HTTPStatusError", FALSE)
    ELSE IF JsonDecodes(resp) THEN Return(Json(resp), TRUE)
    ELSE Raise("JSONDecodeError", TRUE)

\* nothing catches what the client or raise_for_status() raises
AsyncOutcome(op, ans) ==
    IF ans.kind = "no-response" THEN Raise("ConnectError", FALSE)
    ELSE AsyncBody(op, ans)

\* the coroutines suspended at their await: a bag, since two calls with the
\* same arguments are two coroutines
Suspended == BagToSet(inflight)

\* the locals of some suspended coroutine, as if the locals were module
\* globals that another coroutine had overwritten
SharedFrame(frames, f) == CHOOSE g \in BagToSet(frames) : TRUE
\* the locals (params, headers, client) of the coroutine f
Frame(frames, f) == f

\* a coroutine runs to its await: it builds its request, sends it and suspends
AsyncStart(op, a) ==
    /\ program = "server"
    /\ pc = "serving"
    /\ BagCardinality(inflight) < MaxInFlight
    /\ inflight' = inflight (+) SetToBag({[op |-> op, args |-> a,
                                           sent |-> RoundTrips(AsyncRequest(op, a))]})
    /\ UNCHANGED <<program, environ, pc, API_BASE_URL, API_KEY, done, vmState>>

\* the response (or the transport's failure) arrives: the coroutine resumes
\* and runs to its end
AsyncResume ==
    /\ program = "server"
    /\ \E c \in Suspended :
         LET f == Frame(inflight, c) IN
         \E ans \in Answers(c.op) :
            /\ done' = [kind |-> "call", program |-> "server", op |-> c.op,
                        args |-> c.args, bound |-> TRUE, sent |-> f.sent,
                        answer |-> ans, outcome |-> AsyncOutcome(f.op, ans)]
            /\ vmState' \in VmNext(vmState, c.op, ans)
            /\ inflight' = inflight (-) SetToBag({c})
    /\ UNCHANGED <<program, environ, pc, API_BASE_URL, API_KEY>>

LoadServer ==
    /\ program = "server"
    /\ pc = "loading"
    /\ API_BASE_URL' = API_BASE
    /\ pc' = "serving"
    /\ UNCHANGED <<program, environ, API_KEY, inflight, done, vmState>>

list_instances(A) == \E a \in A : AsyncStart("list_instances", a)
server_list_images(A) == \E a \in A : AsyncStart("list_images", a)
server_list_machine_types(A) == \E a \in A : AsyncStart("list_machine_types", a)
list_snapshots(A) == \E a \in A : AsyncStart("list_snapshots", a)
list_backups(A) == \E a \in A : AsyncStart("list_backups", a)
create_instance(A) == \E a \in A : AsyncStart("create_instance", a)
delete_instance(A) == \E a \in A : AsyncStart("delete_instance", a)
start_instance(A) == \E a \in A : AsyncStart("start_instance", a)
stop_instance(A) == \E a \in A : AsyncStart("stop_instance", a)
reboot_instance(A) == \E a \in A : AsyncStart("reboot_instance", a)
suspend_instance(A) == \E a \in A : AsyncStart("suspend_instance", a)

(***************************************************************************)
(* Specifications                                                          *)
(***************************************************************************)
InitProcess ==
    /\ program \in {"main", "server"}
    /\ environ \in (IF program = "main" THEN Environs ELSE {EmptyDict})
    /\ pc = "loading"
    /\ API_BASE_URL = NoneValue
    /\ API_KEY = NoneValue
    /\ inflight = EmptyBag
    /\ done = NoCall

\* the adapters alone: the upstream's instance is left out
Init == InitProcess /\ vmState = Untracked

Next ==
    \/ LoadMain
    \/ main_list_machine_types
    \/ main_list_images
    \/ list_vms
    \/ get_vm
    \/ create_vm(CreateKwargs)
    \/ delete_vm
    \/ LoadServer
    \/ list_instances(ListArgs("list_instances"))
    \/ server_list_images(ListArgs("list_images"))
    \/ server_list_machine_types(ListArgs("list_machine_types"))
    \/ list_snapshots(ListArgs("list_snapshots"))
    \/ list_backups(ListArgs("list_backups"))
    \/ create_instance(CreateInstanceArgs)
    \/ delete_instance(DeleteArgs)
    \/ start_instance(ActionArgs)
    \/ stop_instance(ActionArgs)
    \/ reboot_instance(ActionArgs)
    \/ suspend_instance(ActionArgs)
    \/ AsyncResume

Spec == Init /\ [][Next]_vars

\* the adapters against an upstream whose instance changes state: every
\* operation with its default arguments
InitLifecycle == InitProcess /\ vmState \in VmStates

NextLifecycle ==
    \/ LoadMain
    \/ main_list_machine_types
    \/ main_list_images
    \/ list_vms
    \/ get_vm
    \/ create_vm(CreateByName)
    \/ delete_vm
    \/ LoadServer
    \/ list_instances({ListDefaults("list_instances")})
    \/ server_list_images({ListDefaults("list_images")})
    \/ server_list_machine_types({ListDefaults("list_machine_types")})
    \/ list_snapshots({ListDefaults("list_snapshots")})
    \/ list_backups({ListDefaults("list_backups")})
    \/ create_instance({CreateInstanceDefaults})
    \/ delete_instance({DeleteDefaults})
    \/ start_instance({ActionDefaults})
    \/ stop_instance({ActionDefaults})
    \/ reboot_instance({ActionDefaults})
    \/ suspend_instance({ActionDefaults})
    \/ AsyncResume

SpecLifecycle == InitLifecycle /\ [][NextLifecycle]_vars

(***************************************************************************)
(* Properties                                                              *)
(***************************************************************************)
Completed == done.kind = "call"
\* the call bound to its tool's signature, so the tool ran
Entered == Completed /\ done.bound

IsSuccess(ans) == ans.kind = "response" /\ ans.status_code < ClientErrorFloor
IsEmptySuccess(ans) == ans.kind = "response" /\ ans.status_code = NoContent

IsEnvelope(v) == DOMAIN v = {"error", "status_code"} /\ v.error # ""

\* every request on the wire: of the call that completed last and of the
\* suspended coroutines
AllSent ==
    (IF Completed THEN {done.sent[n] : n \in 1..Len(done.sent)} ELSE {})
    \cup UNION { {c.sent[n] : n \in 1..Len(c.sent)} : c \in Suspended }

EnvKey == Getenv(environ, "VM_API_KEY", NoneValue)

\* C1: whichever operation of either program ran, an upstream answer with a
\* failure status comes back to the caller as the value
\* {"error": <non-empty string>, "status_code": <that status>}, never as an
\* exception.
C1_FailureStatusIsEnvelope ==
    (Entered /\ IsFailure(done.answer)) =>
        /\ done.outcome.kind = "return"
        /\ IsEnvelope(done.outcome.value)
        /\ done.outcome.value.status_code = done.answer.status_code

\* C2: in main.py, a call whose HTTP request got no response at all returns
\* the envelope with status_code 500 and a non-empty error, not an exception.
C2_NoResponseIsEnvelope500 ==
    (Entered /\ done.program = "main" /\ done.answer = NoResponse) =>
        /\ done.outcome.kind = "return"
        /\ IsEnvelope(done.outcome.value)
        /\ done.outcome.value.status_code = DefaultStatusCode

\* C3: every request sent upstream, by either program, carries the header
\* x-api-key.
C3_EveryRequestAuthenticated ==
    \A r \in AllSent : "x-api-key" \in DOMAIN r.headers

\* C4: in main.py, when VM_API_KEY is unset or empty the import fails, no tool
\* ever runs and no request is sent; and whenever a tool has run, the server
\* was serving with API_KEY non-empty and equal to the environment's value,
\* which is the x-api-key of every request of that call.
C4_CredentialRequiredAtStartup ==
    program = "main" =>
        /\ (pc # "loading" /\ EnvKey \in {NoneValue, ""}) => pc = "failed"
        /\ EnvKey \in {NoneValue, ""} => (done = NoCall /\ AllSent = {})
        /\ pc = "failed" => (done = NoCall /\ AllSent = {})
        /\ Completed =>
              /\ pc = "serving"
              /\ API_KEY \notin {NoneValue, ""}
              /\ API_KEY = EnvKey
              /\ \A r \in AllSent : r.headers["x-api-key"] = EnvKey

C4_Witness ==
    program = "main" /\ pc = "failed" /\ EnvKey = "" /\ done = NoCall

\* C5: every call of create_vm sends one request whose machine_type (image) is
\* {"id": v} when the caller gave machine_type_id (image_id) = v, and
\* {"name": v} when the caller gave machine_type_name (image_name) = v.
C5_ReferenceSerializedByStyle ==
    (Completed /\ done.op = "create_vm") =>
        /\ Len(done.sent) = 1
        /\ LET body == done.sent[1].json
               a == done.args
           IN /\ "machine_type_id" \in DOMAIN a =>
                    body["machine_type"] = [id |-> a["machine_type_id"]]
              /\ "machine_type_name" \in DOMAIN a =>
                    body["machine_type"] = [name |-> a["machine_type_name"]]
              /\ "image_id" \in DOMAIN a => body["image"] = [id |-> a["image_id"]]
              /\ "image_name" \in DOMAIN a => body["image"] = [name |-> a["image_name"]]

\* the optional arguments of create_vm and the key each one puts in the body
OptionalKeys ==
    { <<"availability_zone", "availability_zone">>, <<"vpc_id", "network">>,
      <<"user_data", "user_data">> }

\* what C6 says of the body besides the presence of the optional keys
C6_BodyShape(a, body) ==
    /\ {"name", "machine_type", "ssh_key_name", "image"} \subseteq DOMAIN body
    /\ \A k \in DOMAIN body \cap {"name", "ssh_key_name", "availability_zone", "user_data"} :
          body[k] # NoneValue
    /\ \A k \in DOMAIN body \cap {"machine_type", "image"} :
          \A j \in DOMAIN body[k] : body[k][j] # NoneValue
    /\ "network" \in DOMAIN body =>
          body["network"] = [vpc |-> [id |-> a["vpc_id"]], associate_public_ip |-> TRUE]

\* C6 as stated: the body of create_vm has the key availability_zone, network
\* or user_data exactly when the caller supplied availability_zone, vpc_id or
\* user_data; no key is null; network is {"vpc": {"id": vpc_id},
\* "associate_public_ip": true}; name, machine_type, ssh_key_name and image
\* are always there.
C6_OptionalKeyIffSupplied ==
    (Entered /\ done.op = "create_vm") =>
        LET body == done.sent[1].json
            a == done.args
        IN /\ \A o \in OptionalKeys : (o[2] \in DOMAIN body) <=> (o[1] \in DOMAIN a)
           /\ C6_BodyShape(a, body)

\* C6 amended: the body of create_vm has the key availability_zone, network or
\* user_data exactly when the caller supplied a non-empty availability_zone,
\* vpc_id or user_data (an empty string is left out like an absent argument);
\* the rest as stated.
C6_OptionalKeyIffNonEmpty ==
    (Entered /\ done.op = "create_vm") =>
        LET body == done.sent[1].json
            a == done.args
        IN /\ \A o \in OptionalKeys :
                (o[2] \in DOMAIN body) <=> (o[1] \in DOMAIN a /\ a[o[1]] # "")
           /\ C6_BodyShape(a, body)

C6_Witness ==
    /\ Entered
    /\ done.op = "create_vm"
    /\ DOMAIN done.args \cap {"availability_zone", "vpc_id", "user_data"}
          = {"availability_zone", "vpc_id"}
    /\ done.args["availability_zone"] = ""
    /\ done.args["vpc_id"] = "vpc-9"
    /\ DOMAIN done.sent[1].json
          = {"name", "machine_type", "ssh_key_name", "image", "network"}

\* the fixed values that acknowledge an empty success
Acknowledgments ==
    { [message |-> "VM deleted successfully"], [status |-> "deleted"],
      [status |-> "started"], [status |-> "stopped"], [status |-> "rebooted"],
      [status |-> "suspended"] }

\* C7: for delete_vm, delete_instance and start/stop/reboot/suspend_instance:
\* an answer 204 is returned as a fixed acknowledgment without decoding the
\* body; the body is decoded only after a success status other than 204; and
\* after a failure status or no response nothing is acknowledged.
C7_EmptySuccessAcknowledged ==
    (Entered /\ done.op \in MutatingOps) =>
        /\ IsEmptySuccess(done.answer) =>
              /\ done.outcome.kind = "return"
              /\ done.outcome.value \in Acknowledgments
              /\ ~done.outcome.decoded
        /\ done.outcome.decoded =>
              (IsSuccess(done.answer) /\ ~IsEmptySuccess(done.answer))
        /\ ~IsSuccess(done.answer) =>
              ~(done.outcome.kind = "return" /\ done.outcome.value \in Acknowledgments)

C7_Witness ==
    /\ Entered
    /\ done.op = "suspend_instance"
    /\ IsEmptySuccess(done.answer)
    /\ done.outcome = Return([status |-> "suspended"], FALSE)

\* C8: a listing that the upstream answers with a success status and the
\* payload P returns P, whatever its arguments were.
C8_ListingPassThrough ==
    (Entered /\ done.op \in ListingOps /\ IsSuccess(done.answer)) =>
        /\ done.outcome.kind = "return"
        /\ done.outcome.value = done.answer.body

C8_Witness ==
    /\ Entered
    /\ done.op = "list_snapshots"
    /\ done.args["x_tenant_id"] = "tenant-1"
    /\ done.args["_limit"] = 10
    /\ done.answer = Response(200, [items |-> <<"vm-1">>, total |-> 1])
    /\ done.outcome.kind = "return"
    /\ done.outcome.value = [items |-> <<"vm-1">>, total |-> 1]

\* C9: every call that entered its operation has sent exactly one request,
\* while it is suspended and when it has completed; whatever state the
\* instance is in, a success status makes the call return and a failure status
\* or a lost response never yields an acknowledgment.
C9_OneRoundTrip ==
    /\ \A c \in Suspended : Len(c.sent) = 1
    /\ Entered =>
          /\ Len(done.sent) = 1
          /\ done.sent[1].method \in {"GET", "POST", "DELETE"}
          /\ done.op \in MutatingOps =>
                /\ IsSuccess(done.answer) => done.outcome.kind = "return"
                /\ ~IsSuccess(done.answer) =>
                      ~(done.outcome.kind = "return"
                        /\ done.outcome.value \in Acknowledgments)

C9_Witness ==
    /\ Entered
    /\ done.op = "start_instance"
    /\ vmState = "terminated"
    /\ Len(done.sent) = 1
    /\ done.outcome = Return([status |-> "started"], FALSE)

\* C10: under every interleaving of server.py's coroutines, the request of
\* each coroutine is the one its own arguments build, the result of each call
\* is the one its own arguments and the answer to its own request give when
\* it runs alone, and the configuration stays as it was loaded.
C10_CallsDoNotInterfere ==
    /\ pc # "loading" =>
          /\ API_BASE_URL = (IF program = "main"
                             THEN Getenv(environ, "VM_API_URL", DefaultBaseUrl)
                             ELSE API_BASE)
          /\ API_KEY = (IF program = "main" THEN EnvKey ELSE NoneValue)
    /\ \A c \in Suspended : c.sent = <<AsyncRequest(c.op, c.args)>>
    /\ (Completed /\ done.program = "server") =>
          /\ done.sent = <<AsyncRequest(done.op, done.args)>>
          /\ done.outcome = AsyncOutcome(done.op, done.answer)

C10_Witness ==
    /\ Completed
    /\ done.program = "server"
    /\ done.op = "list_instances"
    /\ \E c \in Suspended : c.op = "list_instances" /\ c.args # done.args
    /\ \E c \in Suspended : c.op = "stop_instance"

====
